---- MODULE Spec2Model ----
(***************************************************************************)
(* Verification model of the web dashboard: the chart-linkage event bus    *)
(* (ChartEventBus, ChartEventProvider, withChartLinkage), the indicator    *)
(* computation of InteractiveStockChart, the derivations of                *)
(* AnalysisInsights and PriceForecast, the status polling of StockAnalyzer *)
(* and the report list of App.  Spec is the bus used directly by its       *)
(* clients, SpecLinkage the LinkedChart views under a provider,            *)
(* SpecIndicator, SpecInsight and SpecForecast one render of a component,  *)
(* SpecPolling one analysis task, SpecReports the report-list requests.    *)
(*                                                                         *)
(* A JavaScript Set keeps its elements in insertion order, ignores the     *)
(* add of an element it already holds, and its forEach visits elements     *)
(* added during the iteration and skips elements deleted before they are   *)
(* reached.  A Set is modelled as a duplicate-free sequence and a running  *)
(* forEach as a cursor into it: the number of entries already passed.      *)
(* Deleting an entry at or before the cursor moves the cursor back by one, *)
(* which is the compacted form of ECMAScript's "replace by empty" rule.    *)
(***************************************************************************)
EXTENDS Integers, Sequences, FiniteSets, TLC

VARIABLES
  buses,      \* buses[b][k]: the entry of bus b's `listeners` Map for kind k
  tokens,     \* unsubscribe closures returned by on() to direct clients: how many
              \* closures over (kind, callback) are in each state
  frame,      \* the emit() call in progress, if any
  called,     \* history: callback invocations of the current / last emit
  snapshot,   \* history: the emitted kind and payload, and the handler set of
              \* that kind when emit began
  added,      \* history: callbacks newly registered for that kind in the dispatch
  touched,    \* history: on/off/clear calls hit the emitted kind in the dispatch
  outcome,    \* history: how the last emit() call ended
  lost,       \* history: payload of the last emit that found no handler ("none": none)
  cleared,    \* history: clear() ran and no on() has run since
  lastOp,     \* history: the bus operation performed by the last step
  views,      \* the LinkedChart instances of one withChartLinkage call
  curBus,     \* the bus the mounted ChartEventProvider last put in the context
  nClosures,  \* number of inline subscriber closures created so far
  data,       \* the `data` prop of InteractiveStockChart (close prices)
  processed,  \* the memoised processedData
  insightProps,   \* the props { data, summary } of AnalysisInsights
  insights,       \* what a render of AnalysisInsights derives from them
  forecastProps,  \* the props { data, currentPrice } of PriceForecast
  forecast,       \* what a render of PriceForecast builds from them
  analyzer,   \* the state and refs of a StockAnalyzer instance
  polling,    \* its interval timer, its status requests in flight, the task
  pollLog,    \* history: the outcomes of the status requests, as processed
  app,        \* the state and refs of App, and the 'reports' cache entry
  requests    \* the report-list requests fetchReports has started

busVars  == <<buses, tokens, frame, called, snapshot, added, touched, outcome,
              lost, cleared, lastOp>>
viewVars == <<views, curBus, nClosures>>
maVars   == <<data, processed>>
insightVars  == <<insightProps, insights>>
forecastVars == <<forecastProps, forecast>>
pollVars   == <<analyzer, polling, pollLog>>
reportVars == <<app, requests>>
pureVars == <<maVars, insightVars, forecastVars, pollVars, reportVars>>
vars     == <<buses, tokens, frame, called, snapshot, added, touched, outcome,
              lost, cleared, lastOp, views, curBus, nClosures,
              data, processed, insightProps, insights, forecastProps, forecast,
              analyzer, polling, pollLog, app, requests>>

----------------------------------------------------------------------------
(* Bounds *)

MaxTokens == 2      \* on() calls made by direct clients
MaxCalls  == 3      \* callback invocations recorded for one emit
MaxBuses  == 2      \* ChartEventBus instances a provider creates (its renders)
MaxClosures == 4    \* inline subscriber closures created by effect runs
MaxShort  == 5      \* bar sequences up to this length are enumerated in full
MaxBars   == 121    \* longest bar sequence
MaxTrend  == 3      \* longest annual_trend
MaxPolls  == 5      \* status requests issued for one task (with a 2 s interval
                    \* and a 10 s timeout they can all be in flight together)
MaxFetches == 3     \* report-list requests fetchReports starts

----------------------------------------------------------------------------
(* Sequence helpers *)

Range(s) == {s[i] : i \in 1..Len(s)}

Remove(s, x) == SelectSeq(s, LAMBDA y : y # x)

IndexOf(s, x) == IF x \in Range(s) THEN CHOOSE i \in 1..Len(s) : s[i] = x ELSE 0

----------------------------------------------------------------------------
(* ChartEventBus *)

ChartEventTypes == {"date:click", "data:highlight"}

\* Payload objects.  A publisher passes a fresh object to every emit; an
\* identity is reused only once nothing refers to the object any more.
Payloads == {"p1", "p2"}

\* A callback is a function object: its code and the environment it closed over.
Fn(name, env) == [fn |-> name, env |-> env]

Callbacks == {Fn("h1", 0), Fn("h2", 0)}

NoEntry == [has |-> FALSE, set |-> <<>>]

\* constructor(): this.listeners = new Map()
NewBus == [k \in ChartEventTypes |-> NoEntry]

\* Set.prototype.add
SetAddFront(s, cb) == IF cb \in Range(s) THEN s ELSE <<cb>> \o s
SetAdd(s, cb) == IF cb \in Range(s) THEN s ELSE Append(s, cb)

\* on(eventType, callback), the Map update
on(L, k, cb) == [L EXCEPT ![k] = [has |-> TRUE, set |-> SetAdd(L[k].set, cb)]]

\* off(eventType, callback), the Map update
off(L, k, cb) == IF L[k].has THEN [L EXCEPT ![k].set = Remove(@, cb)] ELSE L

\* clear(): this.listeners.clear()
clearFirstOnly(L) == [L EXCEPT !["date:click"] = NoEntry]
clear(L) == [k \in ChartEventTypes |-> NoEntry]

Idle == [pc |-> "idle", bus |-> 0, kind |-> "date:click", payload |-> "none",
         cursor |-> 0, cb |-> Fn("h1", 0), det |-> FALSE, set |-> <<>>]

\* The Set object the running forEach iterates: the Map's entry, or the Set
\* that a clear() of the Map detached from it.
IterSet == IF frame.det THEN frame.set ELSE buses[frame.bus][frame.kind].set

\* Operations are called by a client between emits or by a running callback.
CanCall == frame.pc \in {"idle", "run"}

\* The frame f after off(k, cb) on bus b, whose Map was L: the running forEach
\* has one entry less behind it when the deleted entry was already passed.
FrameAfterOff(f, b, k, cb, L) ==
  IF f.pc = "run" /\ f.bus = b /\ f.kind = k /\ ~f.det
     /\ L[k].has /\ IndexOf(L[k].set, cb) \in 1..f.cursor
  THEN [f EXCEPT !.cursor = @ - 1]
  ELSE f

\* The frame after clear(): a running forEach keeps the detached Set.
FrameAfterClear(b) ==
  IF frame.pc = "run" /\ frame.bus = b /\ ~frame.det
  THEN [frame EXCEPT !.det = TRUE, !.set = buses[b][frame.kind].set]
  ELSE frame

InDispatch(b, k) == frame.pc = "run" /\ frame.bus = b /\ frame.kind = k

Op(name, again, changed) == [op |-> name, again |-> again, changed |-> changed]

NoSnapshot == [kind |-> "date:click", payload |-> "none", set |-> <<>>,
               afterClear |-> FALSE]

\* The history of an emit is kept until the next bus call made outside it.
History(newAdded, newTouched) ==
  IF frame.pc = "idle"
  THEN /\ called' = <<>>
       /\ snapshot' = NoSnapshot
       /\ added' = {}
       /\ touched' = FALSE
       /\ outcome' = "none"
  ELSE /\ called' = called
       /\ snapshot' = snapshot
       /\ added' = newAdded
       /\ touched' = newTouched
       /\ outcome' = outcome

\* The unsubscribe closures () => this.off(kind, cb) handed out so far, by what
\* they close over.  A closure is "live" until it is called or until off() or
\* clear() removes its callback, "used" once it has been called, and "gone"
\* when off() or clear() removed its callback before it was called.
TokenKeys == [kind : ChartEventTypes, cb : Callbacks]
TokenStates == {"live", "used", "gone"}
Key(k, cb) == [kind |-> k, cb |-> cb]
NoTokens == [key \in TokenKeys |-> [st \in TokenStates |-> 0]]
Held(key) == tokens[key]["live"] + tokens[key]["used"] + tokens[key]["gone"]
RECURSIVE SumHeld(_)
SumHeld(keys) ==
  IF keys = {} THEN 0
  ELSE LET key == CHOOSE x \in keys : TRUE IN Held(key) + SumHeld(keys \ {key})
Issued == SumHeld(TokenKeys)

\* bus.on(k, cb) by a direct client, who keeps the returned closure
On(k, cb) ==
  /\ CanCall
  /\ Issued < MaxTokens
  /\ buses' = [buses EXCEPT ![1] = on(@, k, cb)]
  /\ tokens' = [tokens EXCEPT ![Key(k, cb)]["live"] = @ + 1]
  /\ History(IF InDispatch(1, k) /\ cb \notin Range(buses[1][k].set)
             THEN added \cup {cb} ELSE added,
             touched \/ InDispatch(1, k))
  /\ cleared' = "no"
  /\ lastOp' = Op("other", FALSE, FALSE)
  /\ UNCHANGED <<frame, lost>>

\* The effect of this.off(k, cb) on bus 1, shared by Off and Unsubscribe
DoOff(k, cb) ==
  /\ buses' = [buses EXCEPT ![1] = off(@, k, cb)]
  /\ frame' = FrameAfterOff(frame, 1, k, cb, buses[1])
  /\ History(added, touched \/ InDispatch(1, k))
  /\ UNCHANGED <<lost, cleared>>

\* bus.off(k, cb) called directly
Off(k, cb) ==
  /\ CanCall
  /\ DoOff(k, cb)
  /\ tokens' = [tokens EXCEPT ![Key(k, cb)] =
                  [@ EXCEPT !["live"] = 0, !["gone"] = @ + tokens[Key(k, cb)]["live"]]]
  /\ lastOp' = Op("other", FALSE, FALSE)

\* calling a closure () => this.off(eventType, callback) returned by on(); st is
\* the state of the closure that is called
Unsubscribe(k, cb, st) ==
  /\ CanCall
  /\ tokens[Key(k, cb)][st] > 0
  /\ DoOff(k, cb)
  /\ tokens' = IF st = "used" THEN tokens
               ELSE [tokens EXCEPT ![Key(k, cb)] =
                       [@ EXCEPT ![st] = @ - 1, !["used"] = @ + 1]]
  /\ lastOp' = Op("unsub", st = "used", buses'[1] # buses[1])

\* bus.clear()
Clear ==
  /\ CanCall
  /\ buses' = [buses EXCEPT ![1] = clear(@)]
  /\ frame' = FrameAfterClear(1)
  /\ tokens' = [key \in TokenKeys |->
                 [tokens[key] EXCEPT !["live"] = 0, !["gone"] = @ + tokens[key]["live"]]]
  /\ History(added, touched \/ frame.pc = "run")
  /\ cleared' = IF buses'[1] # buses[1] THEN "wiped" ELSE "empty"
  /\ lastOp' = Op("other", FALSE, FALSE)
  /\ UNCHANGED <<lost>>

\* The payload object of the next emit: not the one history still refers to.
FreshPayload == IF lost = "p1" THEN "p2" ELSE "p1"

\* emit(eventType, payload) up to the forEach: the has() test
EmitNoGuard(b, k, p) ==
  /\ frame.pc = "idle"
  /\ p = FreshPayload
  /\ called' = <<>>
  /\ snapshot' = [kind |-> k, payload |-> p, set |-> buses[b][k].set,
                   afterClear |-> cleared # "no"]
  /\ added' = {}
  /\ touched' = FALSE
  /\ lost' = IF buses[b][k].set = <<>> THEN p ELSE lost
  /\ lastOp' = Op("emit", FALSE, FALSE)
  /\ IF buses[b][k].has
     THEN /\ frame' = [Idle EXCEPT !.pc = "iter", !.bus = b, !.kind = k,
                                   !.payload = p]
          /\ outcome' = "running"
     ELSE /\ frame' = Idle
          /\ outcome' = "raised"
  /\ UNCHANGED <<buses, tokens, cleared>>

Emit(b, k, p) ==
  /\ frame.pc = "idle"
  /\ p = FreshPayload
  /\ called' = <<>>
  /\ snapshot' = [kind |-> k, payload |-> p, set |-> buses[b][k].set,
                   afterClear |-> cleared # "no"]
  /\ added' = {}
  /\ touched' = FALSE
  /\ lost' = IF buses[b][k].set = <<>> THEN p ELSE lost
  /\ lastOp' = Op("emit", FALSE, FALSE)
  /\ IF buses[b][k].has
     THEN /\ frame' = [Idle EXCEPT !.pc = "iter", !.bus = b, !.kind = k,
                                   !.payload = p]
          /\ outcome' = "running"
     ELSE /\ frame' = Idle
          /\ outcome' = "returned"
  /\ UNCHANGED <<buses, tokens, cleared>>

\* one turn of listeners.get(eventType).forEach: call the next callback with
\* the payload, or leave the loop and return from emit
ForEachStep ==
  /\ frame.pc = "iter"
  /\ IF frame.cursor < Len(IterSet)
     THEN /\ Len(called) < MaxCalls
          /\ frame' = [frame EXCEPT !.pc = "run", !.cursor = @ + 1,
                                    !.cb = IterSet[frame.cursor + 1]]
          /\ called' = Append(called, [cb |-> IterSet[frame.cursor + 1],
                                       arg |-> frame.payload, threw |-> FALSE])
          /\ outcome' = outcome
     ELSE /\ frame' = Idle
          /\ called' = called
          /\ outcome' = "returned"
  /\ lastOp' = Op("other", FALSE, FALSE)
  /\ UNCHANGED <<buses, tokens, snapshot, added, touched, lost, cleared>>

\* callback(payload) returns
CallbackReturn ==
  /\ frame.pc = "run"
  /\ frame' = [frame EXCEPT !.pc = "iter"]
  /\ lastOp' = Op("other", FALSE, FALSE)
  /\ UNCHANGED <<buses, tokens, called, snapshot, added, touched, outcome,
                 lost, cleared>>

\* callback(payload) throws: catch (error) { console.error(...) }
CallbackThrowUncaught ==
  /\ frame.pc = "run"
  /\ frame' = Idle
  /\ outcome' = "raised"
  /\ called' = [called EXCEPT ![Len(called)].threw = TRUE]
  /\ lastOp' = Op("other", FALSE, FALSE)
  /\ UNCHANGED <<buses, tokens, snapshot, added, touched, lost, cleared>>

CallbackThrow ==
  /\ frame.pc = "run"
  /\ frame' = [frame EXCEPT !.pc = "iter"]
  /\ outcome' = outcome
  /\ called' = [called EXCEPT ![Len(called)].threw = TRUE]
  /\ lastOp' = Op("other", FALSE, FALSE)
  /\ UNCHANGED <<buses, tokens, snapshot, added, touched, lost, cleared>>

----------------------------------------------------------------------------
(* withChartLinkage, useChartEvents, ChartEventProvider *)

\* Two instances of the LinkedChart returned by one withChartLinkage call.
Views == {"chartA", "chartB"}

\* The { events } option of that call: an event type given as a string, and a
\* { type, handler } configuration whose handler all instances share.
Events == << [simple |-> TRUE,  type |-> "data:highlight", handler |-> Fn("none", 0)],
             [simple |-> FALSE, type |-> "date:click",     handler |-> Fn("cfg", 0)] >>

Unmounted == [mounted |-> FALSE, unsubs |-> <<>>]

\* The closure () => this.off(eventType, callback) of bus b
Token(b, k, cb) == [bus |-> b, kind |-> k, cb |-> cb]

\* events.map(eventConfig => subscribe(...)) on bus b, from the i-th event on.
\* st holds the buses, the closure counter and the unsubscribers so far; a
\* string event subscribes a new inline closure over props.
RECURSIVE Subscribe(_, _, _)
Subscribe(st, b, i) ==
  IF i > Len(Events) THEN st
  ELSE LET ev == Events[i]
           cb == IF ev.simple THEN Fn("highlight", st.n + 1) ELSE ev.handler
       IN Subscribe([buses  |-> [st.buses EXCEPT ![b] = on(@, ev.type, cb)],
                     n      |-> IF ev.simple THEN st.n + 1 ELSE st.n,
                     unsubs |-> Append(st.unsubs, Token(b, ev.type, cb))],
                    b, i + 1)

\* The number of inline closures one run of the effect creates
ClosuresPerEffect == Cardinality({i \in 1..Len(Events) : Events[i].simple})

\* unsubscribers.forEach(unsubscribe => unsubscribe()), from the i-th one on.
\* st holds the buses and the frame of the emit in progress.
RECURSIVE CleanupFrom(_, _, _)
CleanupFrom(st, unsubs, i) ==
  IF i > Len(unsubs) THEN st
  ELSE LET t == unsubs[i]
       IN CleanupFrom([buses |-> [st.buses EXCEPT ![t.bus] = off(@, t.kind, t.cb)],
                       frame |-> FrameAfterOff(st.frame, t.bus, t.kind, t.cb,
                                               st.buses[t.bus])],
                      unsubs, i + 1)

\* the cleanup function the effect returns
CleanupFirstOnly(st, unsubs) ==
  IF unsubs = <<>> THEN st ELSE CleanupFrom(st, <<unsubs[1]>>, 1)
Cleanup(st, unsubs) == CleanupFrom(st, unsubs, 1)

\* Effects are run by React, between emits or when a running callback makes
\* React render synchronously.
LinkHistory == History(added, touched \/ frame.pc = "run")

\* A LinkedChart mounts under the provider: its effect subscribes on the bus in
\* the context.
Mount(v) ==
  /\ CanCall
  /\ ~views[v].mounted
  /\ nClosures + ClosuresPerEffect <= MaxClosures
  /\ LET r == Subscribe([buses |-> buses, n |-> nClosures, unsubs |-> <<>>], curBus, 1)
     IN /\ buses' = r.buses
        /\ nClosures' = r.n
        /\ views' = [views EXCEPT ![v] = [mounted |-> TRUE, unsubs |-> r.unsubs]]
  /\ LinkHistory
  /\ UNCHANGED <<frame, curBus, tokens, lost, cleared, lastOp>>

\* A LinkedChart unmounts: React runs the effect's cleanup.
Unmount(v) ==
  /\ CanCall
  /\ views[v].mounted
  /\ LET r == Cleanup([buses |-> buses, frame |-> frame], views[v].unsubs)
     IN /\ buses' = r.buses
        /\ frame' = r.frame
  /\ views' = [views EXCEPT ![v] = Unmounted]
  /\ LinkHistory
  /\ UNCHANGED <<curBus, nClosures, tokens, lost, cleared, lastOp>>

\* props.onExternalHighlight of a mounted LinkedChart changes: the effect's
\* dependencies changed, so React runs its cleanup and then the effect again.
PropsChange(v) ==
  /\ CanCall
  /\ views[v].mounted
  /\ nClosures + ClosuresPerEffect <= MaxClosures
  /\ LET c == Cleanup([buses |-> buses, frame |-> frame], views[v].unsubs)
         r == Subscribe([buses |-> c.buses, n |-> nClosures, unsubs |-> <<>>], curBus, 1)
     IN /\ buses' = r.buses
        /\ frame' = c.frame
        /\ nClosures' = r.n
        /\ views' = [views EXCEPT ![v] = [mounted |-> TRUE, unsubs |-> r.unsubs]]
  /\ LinkHistory
  /\ UNCHANGED <<curBus, tokens, lost, cleared, lastOp>>

\* The mounted views in render order
ViewOrder == <<"chartA", "chartB">>

\* The commit after the provider rendered: the cleanups of all mounted views,
\* from the i-th view on.
RECURSIVE CleanupViews(_, _)
CleanupViews(st, i) ==
  IF i > Len(ViewOrder) THEN st
  ELSE CleanupViews(IF views[ViewOrder[i]].mounted
                    THEN Cleanup(st, views[ViewOrder[i]].unsubs) ELSE st, i + 1)

\* ... and then their effects, on bus b.  st also collects the new view records.
RECURSIVE SetupViews(_, _, _)
SetupViews(st, b, i) ==
  IF i > Len(ViewOrder) THEN st
  ELSE LET v == ViewOrder[i]
           r == Subscribe([buses |-> st.buses, n |-> st.n, unsubs |-> <<>>], b, 1)
       IN IF views[v].mounted
          THEN SetupViews([buses |-> r.buses, n |-> r.n,
                           views |-> [st.views EXCEPT ![v].unsubs = r.unsubs]],
                          b, i + 1)
          ELSE SetupViews(st, b, i + 1)

MountedCount == Cardinality({v \in Views : views[v].mounted})

\* ChartEventProvider renders: const eventBus = new ChartEventBus() becomes the
\* context value, every mounted consumer renders with a new subscribe, and all
\* their effects run again.
ProviderRender ==
  /\ CanCall
  /\ Len(buses) < MaxBuses
  /\ nClosures + MountedCount * ClosuresPerEffect <= MaxClosures
  /\ LET b == Len(buses) + 1
         c == CleanupViews([buses |-> Append(buses, NewBus), frame |-> frame], 1)
         r == SetupViews([buses |-> c.buses, n |-> nClosures, views |-> views], b, 1)
     IN /\ curBus' = b
        /\ buses' = r.buses
        /\ frame' = c.frame
        /\ nClosures' = r.n
        /\ views' = r.views
  /\ LinkHistory
  /\ UNCHANGED <<tokens, lost, cleared, lastOp>>

\* publish(eventType, payload) of some render: eventBus.emit on that render's bus
Publish(b, k) == Emit(b, k, FreshPayload)

----------------------------------------------------------------------------
(* InteractiveStockChart: processedData *)

\* A number or null.  Closes are integers (a price in its smallest unit); the
\* quotient sum / days is kept as the exact fraction num / den, so the
\* rounding of the double division is not modelled.
Null == [null |-> TRUE, num |-> 0, den |-> 1]
Num(n, d) == [null |-> FALSE, num |-> n, den |-> d]

\* slice.reduce((a, b) => a + b, acc): the left fold from the i-th element on,
\* eight additions to a step where that many elements are left
RECURSIVE ReduceSum(_, _, _)
ReduceSum(slice, i, acc) ==
  IF i > Len(slice) THEN acc
  ELSE IF i + 7 <= Len(slice)
  THEN ReduceSum(slice, i + 8,
                 acc + slice[i] + slice[i + 1] + slice[i + 2] + slice[i + 3]
                     + slice[i + 4] + slice[i + 5] + slice[i + 6] + slice[i + 7])
  ELSE ReduceSum(slice, i + 1, acc + slice[i])

\* arr.slice(begin, end) with 0-based begin (inclusive) and end (exclusive); an
\* end beyond the array stops at its length
SliceTail(arr, begin, end) ==
  SubSeq(arr, IF Len(arr) - (end - begin) < 0 THEN 1 ELSE Len(arr) - (end - begin) + 1,
         Len(arr))
Slice(arr, begin, end) ==
  SubSeq(arr, begin + 1, IF end > Len(arr) THEN Len(arr) ELSE end)

\* calculateMA(days): close.map((val, idx, arr) => ...), idx = i - 1
calculateMAExclusive(close, days) ==
  [i \in 1..Len(close) |->
     IF i - 1 < days - 1 THEN Null
     ELSE Num(ReduceSum(Slice(close, (i - 1) - days + 1, i - 1), 1, 0), days)]
calculateMA(close, days) ==
  [i \in 1..Len(close) |->
     IF i - 1 < days - 1 THEN Null
     ELSE Num(ReduceSum(Slice(close, (i - 1) - days + 1, (i - 1) + 1), 1, 0), days)]

\* A standard deviation or null.  Math.sqrt(x) is kept as the root of the exact
\* fraction x: the record stands for sqrt(rad).
NullStd == [null |-> TRUE, rad |-> Num(0, 1)]
Sqrt(x) == [null |-> FALSE, rad |-> x]

\* b - avg for a close b and a mean avg, and Math.pow(x, 2)
Minus(b, avg) == Num(b * avg.den - avg.num, avg.den)
Pow2(x) == Num(x.num * x.num, x.den * x.den)

\* a + x for fractions; the squared differences of one window share their
\* denominator
Plus(a, x) ==
  IF a.den = x.den THEN Num(a.num + x.num, a.den)
  ELSE Num(a.num * x.den + x.num * a.den, a.den * x.den)

\* slice.reduce((a, b) => a + Math.pow(b - avg, 2), acc) from the i-th element on
RECURSIVE ReduceSquareDiff(_, _, _, _)
ReduceSquareDiff(slice, i, acc, avg) ==
  IF i > Len(slice) THEN acc
  ELSE ReduceSquareDiff(slice, i + 1, Plus(acc, Pow2(Minus(slice[i], avg))), avg)

\* calculateSTD(days, ma): close.map((val, idx, arr) => ...), idx = i - 1
calculateSTDSample(close, days, ma) ==
  [i \in 1..Len(close) |->
     IF i - 1 < days - 1 THEN NullStd
     ELSE LET sumSquareDiff ==
                ReduceSquareDiff(Slice(close, (i - 1) - days + 1, (i - 1) + 1),
                                 1, Num(0, 1), ma[i])
          IN Sqrt(Num(sumSquareDiff.num, sumSquareDiff.den * (days - 1)))]
calculateSTD(close, days, ma) ==
  [i \in 1..Len(close) |->
     IF i - 1 < days - 1 THEN NullStd
     ELSE LET sumSquareDiff ==
                ReduceSquareDiff(Slice(close, (i - 1) - days + 1, (i - 1) + 1),
                                 1, Num(0, 1), ma[i])
          IN Sqrt(Num(sumSquareDiff.num, sumSquareDiff.den * days))]

\* A band value or null: the record stands for base + coef * sqrt(rad)
NullBand == [null |-> TRUE, base |-> Null, coef |-> 0, rad |-> Num(0, 1)]
PlusSqrt(v, c, std) == [null |-> FALSE, base |-> v, coef |-> c, rad |-> std.rad]

\* ma20.map((v, i) => (v !== null && std20[i] !== null) ? v + 2 * std20[i] : null)
bollUp(ma20, std20) ==
  [i \in 1..Len(ma20) |->
     IF ~ma20[i].null /\ ~std20[i].null THEN PlusSqrt(ma20[i], 2, std20[i])
     ELSE NullBand]

\* ma20.map((v, i) => (v !== null && std20[i] !== null) ? v - 2 * std20[i] : null)
bollDn(ma20, std20) ==
  [i \in 1..Len(ma20) |->
     IF ~ma20[i].null /\ ~std20[i].null THEN PlusSqrt(ma20[i], -2, std20[i])
     ELSE NullBand]

upColor == "#ef5350"
downColor == "#26a69a"

\* close.map((c, i) => ...), i = j - 1
volColorsStrict(close) ==
  [j \in 1..Len(close) |->
     IF j - 1 = 0 THEN upColor
     ELSE IF close[j] > close[j - 1] THEN upColor ELSE downColor]
volColors(close) ==
  [j \in 1..Len(close) |->
     IF j - 1 = 0 THEN upColor
     ELSE IF close[j] >= close[j - 1] THEN upColor ELSE downColor]

NotReady == [ready |-> FALSE, isNull |-> TRUE]
NullData == [ready |-> TRUE, isNull |-> TRUE]

\* the useMemo body: null without data, else the series
processedData(close) ==
  IF Len(close) = 0 THEN NullData
  ELSE LET ma20 == calculateMA(close, 20)
           std20 == calculateSTD(close, 20, ma20)
       IN [ready |-> TRUE, isNull |-> FALSE,
           close |-> close,
           ma5   |-> calculateMA(close, 5),
           ma20  |-> ma20,
           ma60  |-> calculateMA(close, 60),
           ma120 |-> calculateMA(close, 120),
           bollUp |-> bollUp(ma20, std20),
           bollDn |-> bollDn(ma20, std20),
           volColors |-> volColors(close),
           upColor |-> upColor,
           downColor |-> downColor]

\* The close prices of the data prop: every sequence of up to MaxShort bars over
\* three prices, and longer sequences that rise, repeat and zigzag.
Prices == {10, 11, 13}
ShortInputs == UNION {[1..n -> Prices] : n \in 0..MaxShort}
Patterned(L, a, m) == [i \in 1..L |-> 100 + ((i * a) % m)]
LongInputs ==
  {Patterned(L, pat[1], pat[2]) :
     L \in (MaxShort + 1)..MaxBars, pat \in {<<1, 1000>>, <<0, 1>>, <<7, 5>>, <<3, 11>>}}

\* the first render: useMemo(() => ..., [data])
Render ==
  /\ ~processed.ready
  /\ processed' = processedData(data)
  /\ UNCHANGED data

----------------------------------------------------------------------------
(* AnalysisInsights: rating, valuation status, growth, cash-flow health *)

\* An optional numeric field of the report data: absent (undefined in
\* JavaScript), or the number num / den with den > 0.  Arithmetic on fields is
\* exact; the rounding of double arithmetic is not modelled.  Labels and texts
\* are the source's Chinese strings rendered in English.
Absent == [absent |-> TRUE, num |-> 0, den |-> 1]
Present(n, d) == [absent |-> FALSE, num |-> n, den |-> d]
Number(n) == Present(n, 1)

\* x > t, x < t, x >= t for a field x and a literal t: undefined compares false
Gt(x, t) == ~x.absent /\ x.num > t * x.den
Lt(x, t) == ~x.absent /\ x.num < t * x.den
Ge(x, t) == ~x.absent /\ x.num >= t * x.den

\* the truthiness of a field: false for undefined and for 0
Truthy(x) == ~x.absent /\ x.num # 0

\* x || 0
OrZero(x) == IF Truthy(x) THEN x ELSE Number(0)

\* a < b and a > b for two numbers, and x * (n / d) for a positive literal n / d
LtF(a, b) == a.num * b.den < b.num * a.den
GtF(a, b) == a.num * b.den > b.num * a.den
Scaled(x, n, d) == Present(x.num * n, x.den * d)

\* getInvestmentRating(score)
getInvestmentRatingExclusive(score) ==
  IF Gt(score, 80)
  THEN [label |-> "strongly recommended", action |-> "build a position on dips",
        color |-> "var(--color-success)", bg |-> "rgba(0, 200, 83, 0.1)"]
  ELSE IF Gt(score, 70)
  THEN [label |-> "recommended", action |-> "enter at a good moment",
        color |-> "var(--color-up)", bg |-> "rgba(38, 166, 154, 0.1)"]
  ELSE IF Gt(score, 60)
  THEN [label |-> "neutral", action |-> "wait and watch",
        color |-> "var(--color-warning)", bg |-> "rgba(255, 152, 0, 0.1)"]
  ELSE [label |-> "wait", action |-> "avoid for now",
        color |-> "var(--color-down)", bg |-> "rgba(239, 83, 80, 0.1)"]
getInvestmentRating(score) ==
  IF Ge(score, 80)
  THEN [label |-> "strongly recommended", action |-> "build a position on dips",
        color |-> "var(--color-success)", bg |-> "rgba(0, 200, 83, 0.1)"]
  ELSE IF Ge(score, 70)
  THEN [label |-> "recommended", action |-> "enter at a good moment",
        color |-> "var(--color-up)", bg |-> "rgba(38, 166, 154, 0.1)"]
  ELSE IF Ge(score, 60)
  THEN [label |-> "neutral", action |-> "wait and watch",
        color |-> "var(--color-warning)", bg |-> "rgba(255, 152, 0, 0.1)"]
  ELSE [label |-> "wait", action |-> "avoid for now",
        color |-> "var(--color-down)", bg |-> "rgba(239, 83, 80, 0.1)"]

\* if (dcfMargin > 20) undervaluedCount++ else if (dcfMargin < -20) overvaluedCount++
dcfSignal(dcfMargin) ==
  IF Gt(dcfMargin, 20) THEN "under"
  ELSE IF Lt(dcfMargin, -20) THEN "over"
  ELSE "none"

\* if (ddm && currentPrice < ddm * 0.8) undervaluedCount++
\* else if (ddm && currentPrice > ddm * 1.2) overvaluedCount++
ddmSignalReversed(currentPrice, ddm) ==
  IF Truthy(ddm) /\ GtF(currentPrice, Scaled(ddm, 8, 10)) THEN "under"
  ELSE IF Truthy(ddm) /\ LtF(currentPrice, Scaled(ddm, 12, 10)) THEN "over"
  ELSE "none"
ddmSignal(currentPrice, ddm) ==
  IF Truthy(ddm) /\ LtF(currentPrice, Scaled(ddm, 8, 10)) THEN "under"
  ELSE IF Truthy(ddm) /\ GtF(currentPrice, Scaled(ddm, 12, 10)) THEN "over"
  ELSE "none"

Count(signals, which) == Cardinality({i \in 1..Len(signals) : signals[i] = which})

\* getValuationStatus(); the two counters are returned with the status so that
\* the tally can be observed
getValuationStatus(valuation) ==
  LET dcfMargin    == valuation.dcf_margin_of_safety
      ddmGordon    == valuation.ddm_gordon
      ddmTwoStage  == valuation.ddm_two_stage
      currentPrice == valuation.price
      signals == << dcfSignal(dcfMargin), ddmSignal(currentPrice, ddmGordon),
                    ddmSignal(currentPrice, ddmTwoStage) >>
      undervaluedCount == Count(signals, "under")
      overvaluedCount  == Count(signals, "over")
      Status(st, col) == [status |-> st, color |-> col, tallied |-> TRUE,
                          undervaluedCount |-> undervaluedCount,
                          overvaluedCount |-> overvaluedCount]
  IN IF ~Truthy(currentPrice)
     THEN [status |-> "cannot judge", color |-> "var(--text-muted)",
           tallied |-> FALSE, undervaluedCount |-> 0, overvaluedCount |-> 0]
     ELSE IF undervaluedCount >= 2
     THEN Status("clearly undervalued", "var(--color-success)")
     ELSE IF undervaluedCount >= 1
     THEN Status("relatively undervalued", "var(--color-up)")
     ELSE IF overvaluedCount >= 2
     THEN Status("clearly overvalued", "var(--color-down)")
     ELSE IF overvaluedCount >= 1
     THEN Status("relatively overvalued", "var(--color-warning)")
     ELSE Status("fairly valued", "var(--accent-primary)")

\* The string x.toFixed(1) of a double x: a decimal with one fractional digit,
\* kept as its number of tenths, or "NaN", "Infinity", "-Infinity"
NaN == [kind |-> "NaN", tenths |-> 0]
Infinity == [kind |-> "Infinity", tenths |-> 0]
MinusInfinity == [kind |-> "-Infinity", tenths |-> 0]
Fixed1(t) == [kind |-> "num", tenths |-> t]

Abs(n) == IF n < 0 THEN -n ELSE n

\* (n / d).toFixed(1) for d > 0: the nearest number of tenths, a tie going to
\* the larger magnitude
toFixed1(n, d) ==
  LET m == (20 * Abs(n) + d) \div (2 * d)
  IN Fixed1(IF n < 0 THEN -m ELSE m)

\* ((latest - prev) / prev * 100).toFixed(1) for two optional fields: NaN when
\* one is undefined, a division by zero giving NaN or an infinity
growthPct(latest, prev) ==
  IF latest.absent \/ prev.absent THEN NaN
  ELSE LET diff == latest.num * prev.den - prev.num * latest.den
       IN IF prev.num = 0
          THEN (IF diff = 0 THEN NaN ELSE IF diff > 0 THEN Infinity ELSE MinusInfinity)
          ELSE IF prev.num > 0
          THEN toFixed1(100 * diff * prev.den, latest.den * prev.den * prev.num)
          ELSE toFixed1(-(100 * diff * prev.den), latest.den * prev.den * (-prev.num))

NoGrowth == [isNull |-> TRUE, revenueGrowth |-> NaN, profitGrowth |-> NaN]

\* calcGrowthRate(); the points of annual_trend are objects, so !latest and
\* !prev are false
calcGrowthRate(annualTrend) ==
  IF Len(annualTrend) < 2 THEN NoGrowth
  ELSE LET latest == annualTrend[(Len(annualTrend) - 1) + 1]
           prev   == annualTrend[(Len(annualTrend) - 2) + 1]
       IN IF ~Truthy(prev.revenue_yi) THEN NoGrowth
          ELSE [isNull |-> FALSE,
                revenueGrowth |-> growthPct(latest.revenue_yi, prev.revenue_yi),
                profitGrowth  |-> growthPct(latest.net_profit_yi, prev.net_profit_yi)]

\* growth.revenueGrowth > t and growth.profitGrowth < t: the string is
\* converted to a number, NaN compares false
StrGt(str, t) ==
  \/ str.kind = "Infinity"
  \/ str.kind = "num" /\ str.tenths > 10 * t
StrLt(str, t) ==
  \/ str.kind = "-Infinity"
  \/ str.kind = "num" /\ str.tenths < 10 * t

\* cfo / netProfit for netProfit # 0, with a positive denominator
Ratio(cfo, netProfit) ==
  IF netProfit.num > 0
  THEN Present(cfo.num * netProfit.den, cfo.den * netProfit.num)
  ELSE Present(-(cfo.num * netProfit.den), cfo.den * (-netProfit.num))

\* getCashFlowHealth()
getCashFlowHealth(cashFlow, fundamentals) ==
  LET cfo == cashFlow.latest_cfo_yi
      netProfit == fundamentals.net_profit_yi
  IN IF ~Truthy(cfo) \/ ~Truthy(netProfit)
     THEN [status |-> "insufficient data", color |-> "var(--text-muted)", desc |-> ""]
     ELSE LET ratio == Ratio(cfo, netProfit)
          IN IF GtF(ratio, Present(12, 10))
             THEN [status |-> "excellent", color |-> "var(--color-success)",
                   desc |-> "operating cash flow far above net profit"]
             ELSE IF GtF(ratio, Present(8, 10))
             THEN [status |-> "good", color |-> "var(--color-up)",
                   desc |-> "cash flow matches profit"]
             ELSE IF GtF(ratio, Present(5, 10))
             THEN [status |-> "fair", color |-> "var(--color-warning)",
                   desc |-> "cash flow slightly below profit"]
             ELSE [status |-> "poor", color |-> "var(--color-down)",
                   desc |-> "profit quality in doubt"]

----------------------------------------------------------------------------
(* AnalysisInsights: highlights and risks *)

Highlight(rule, text, priority) ==
  [rule |-> rule, text |-> text, priority |-> priority]
Risk(rule, text, level) == [rule |-> rule, text |-> text, level |-> level]

\* growth_momentum.summary when the field is missing
NoSummary == "undefined"

\* The highlights array after the pushes of generateHighlights, in push order
highlightsPushed(summary, valuation, growth, growthMomentum, cashFlowHealth) ==
  (IF Gt(summary.roe, 20) THEN <<Highlight("roe", "outstanding return on capital", 1)>>
   ELSE IF Gt(summary.roe, 15) THEN <<Highlight("roe", "strong profitability", 2)>>
   ELSE <<>>)
  \o
  (IF Gt(summary.gross_margin, 50) THEN <<Highlight("gross_margin", "deep moat", 1)>>
   ELSE IF Gt(summary.gross_margin, 30)
   THEN <<Highlight("gross_margin", "competitive product", 2)>>
   ELSE <<>>)
  \o
  (IF Lt(summary.debt_ratio, 30) THEN <<Highlight("debt_ratio", "very sound finances", 1)>>
   ELSE IF Lt(summary.debt_ratio, 50)
   THEN <<Highlight("debt_ratio", "healthy structure", 2)>>
   ELSE <<>>)
  \o
  (IF ~growth.isNull /\ StrGt(growth.revenueGrowth, 20)
   THEN <<Highlight("revenue_growth", "high growth", 1)>>
   ELSE IF ~growth.isNull /\ StrGt(growth.revenueGrowth, 10)
   THEN <<Highlight("revenue_growth", "steady growth", 2)>>
   ELSE <<>>)
  \o
  (IF growthMomentum.summary = "sustained growth"
   THEN <<Highlight("growth_momentum", "steadily upward", 1)>>
   ELSE IF growthMomentum.summary = "accelerating growth"
   THEN <<Highlight("growth_momentum", "strong momentum", 1)>>
   ELSE <<>>)
  \o
  (IF Gt(valuation.dividend_yield, 3)
   THEN <<Highlight("dividend_yield", "generous dividend", 2)>>
   ELSE <<>>)
  \o
  (IF cashFlowHealth.status = "excellent"
   THEN <<Highlight("cash_flow", "high-quality profit", 1)>>
   ELSE <<>>)
  \o
  (IF Truthy(valuation.pe_ttm) /\ Lt(valuation.pe_ttm, 15)
   THEN <<Highlight("pe_ttm", "low valuation", 2)>>
   ELSE <<>>)

\* highlights.sort((a, b) => a.priority - b.priority): Array.prototype.sort is
\* stable; an insertion sort that puts each item behind the items that do not
\* compare greater
insertDescending(sorted, x) ==
  LET k == Cardinality({i \in 1..Len(sorted) : sorted[i].priority - x.priority >= 0})
  IN SubSeq(sorted, 1, k) \o <<x>> \o SubSeq(sorted, k + 1, Len(sorted))
insert(sorted, x) ==
  LET k == Cardinality({i \in 1..Len(sorted) : sorted[i].priority - x.priority <= 0})
  IN SubSeq(sorted, 1, k) \o <<x>> \o SubSeq(sorted, k + 1, Len(sorted))

RECURSIVE sortFrom(_, _, _)
sortFrom(items, i, acc) ==
  IF i > Len(items) THEN acc ELSE sortFrom(items, i + 1, insert(acc, items[i]))

sort(items) == sortFrom(items, 1, <<>>)

\* generateHighlights(): return highlights.sort(...).slice(0, 5)
generateHighlights(summary, valuation, growth, growthMomentum, cashFlowHealth) ==
  Slice(sort(highlightsPushed(summary, valuation, growth, growthMomentum,
                              cashFlowHealth)), 0, 5)

\* The risks array after the pushes of generateRisks, in push order
risksPushed(summary, valuation, growth, growthMomentum, cashFlowHealth) ==
  (IF Gt(valuation.pe_ttm, 50) THEN <<Risk("pe_ttm", "valuation too high", "high")>>
   ELSE IF Gt(valuation.pe_ttm, 30) THEN <<Risk("pe_ttm", "valuation high", "medium")>>
   ELSE <<>>)
  \o
  (IF Lt(valuation.dcf_margin_of_safety, -30)
   THEN <<Risk("dcf_margin_of_safety", "value below price", "high")>>
   ELSE <<>>)
  \o
  (IF Truthy(summary.roe) /\ Lt(summary.roe, 8)
   THEN <<Risk("roe", "low return on capital", "medium")>>
   ELSE <<>>)
  \o
  (IF Gt(summary.debt_ratio, 70) THEN <<Risk("debt_ratio", "leverage too high", "high")>>
   ELSE IF Gt(summary.debt_ratio, 60) THEN <<Risk("debt_ratio", "debt high", "medium")>>
   ELSE <<>>)
  \o
  (IF Truthy(summary.net_margin) /\ Lt(summary.net_margin, 5)
   THEN <<Risk("net_margin", "thin margin", "high")>>
   ELSE <<>>)
  \o
  (IF ~growth.isNull /\ StrLt(growth.revenueGrowth, 0)
   THEN <<Risk("growth", "revenue falling", "high")>>
   ELSE IF ~growth.isNull /\ StrLt(growth.profitGrowth, 0)
   THEN <<Risk("growth", "profit falling", "medium")>>
   ELSE <<>>)
  \o
  (IF cashFlowHealth.status = "poor"
   THEN <<Risk("cash_flow", "poor cash-flow quality", "high")>>
   ELSE <<>>)
  \o
  (IF growthMomentum.summary = "declining" \/ growthMomentum.summary = "recession"
   THEN <<Risk("growth_momentum", "turning down", "high")>>
   ELSE <<>>)

\* generateRisks(): return risks.slice(0, 5)
generateRisksByLevel(summary, valuation, growth, growthMomentum, cashFlowHealth) ==
  LET risks == risksPushed(summary, valuation, growth, growthMomentum, cashFlowHealth)
  IN Slice(SelectSeq(risks, LAMBDA r : r.level = "high")
             \o SelectSeq(risks, LAMBDA r : r.level = "medium"), 0, 5)
generateRisks(summary, valuation, growth, growthMomentum, cashFlowHealth) ==
  Slice(risksPushed(summary, valuation, growth, growthMomentum, cashFlowHealth), 0, 5)

\* The operation-advice paragraph: scores.overall >= 75 ? ... : scores.overall
\* >= 60 ? ... : ..., with the clause each variant chooses.  scores.overall is
\* compared as it is: undefined compares false.
operationAdvice(scores, valuationStatus, highlights) ==
  IF Ge(scores.overall, 75)
  THEN [variant |-> "high",
        clause  |-> IF valuationStatus.status = "clearly undervalued"
                       \/ valuationStatus.status = "relatively undervalued"
                    THEN "valuation has a margin of safety"
                    ELSE "but watch the valuation"]
  ELSE IF Ge(scores.overall, 60)
  THEN [variant |-> "medium",
        clause  |-> IF Len(highlights) > 0 THEN "has some investment value, but" ELSE ""]
  ELSE [variant |-> "low", clause |-> ""]

NotRendered == [rendered |-> FALSE]

\* AnalysisInsights({ data, summary }) up to the two generated lists.  A missing
\* group of data (data.scores || {}, ...) is a group with every field absent.
\* pushedHighlights and pushedRisks record the lists before sort and slice.
AnalysisInsights(props) ==
  LET scores == props.data.scores
      valuation == props.data.valuation
      fundamentals == props.data.fundamentals
      growthMomentum == props.data.growth_momentum
      cashFlow == props.data.cash_flow
      annualTrend == props.data.annual_trend
      growth == calcGrowthRate(annualTrend)
      cashFlowHealth == getCashFlowHealth(cashFlow, fundamentals)
      valuationStatus == getValuationStatus(valuation)
      highlights == generateHighlights(props.summary, valuation, growth,
                                       growthMomentum, cashFlowHealth)
  IN [rendered |-> TRUE,
      rating |-> getInvestmentRating(OrZero(scores.overall)),
      valuationStatus |-> valuationStatus,
      growth |-> growth,
      cashFlowHealth |-> cashFlowHealth,
      highlights |-> highlights,
      risks |-> generateRisks(props.summary, valuation, growth,
                              growthMomentum, cashFlowHealth),
      pushedHighlights |-> highlightsPushed(props.summary, valuation, growth,
                                            growthMomentum, cashFlowHealth),
      pushedRisks |-> risksPushed(props.summary, valuation, growth,
                                  growthMomentum, cashFlowHealth),
      advice |-> operationAdvice(scores, valuationStatus, highlights)]

\* the render of AnalysisInsights with the props it is given
RenderInsights ==
  /\ ~insights.rendered
  /\ insights' = AnalysisInsights(insightProps)
  /\ UNCHANGED insightProps

----------------------------------------------------------------------------
(* PriceForecast *)

NoForecast == [rendered |-> TRUE, isNull |-> TRUE]

\* PriceForecast({ data, currentPrice }) up to chartData; the names of the two
\* points are the source's Chinese labels rendered in English
PriceForecastOrdered(props) ==
  IF props.data.absent \/ props.data.one_year_price.absent THEN NoForecast
  ELSE LET low  == props.data.one_year_price.low
           mid  == props.data.one_year_price.mid
           high == props.data.one_year_price.high
           lo   == IF low <= high THEN low ELSE high
           hi   == IF low <= high THEN high ELSE low
       IN [rendered |-> TRUE, isNull |-> FALSE,
           confidence |-> props.data.one_year_price.confidence,
           drivers |-> props.data.key_drivers,
           chartData |->
             << [name |-> "current", price |-> props.currentPrice,
                 range |-> <<props.currentPrice, props.currentPrice>>],
                [name |-> "forecast (1 year)", price |-> mid,
                 range |-> <<lo, hi>>] >>]
PriceForecast(props) ==
  IF props.data.absent \/ props.data.one_year_price.absent THEN NoForecast
  ELSE LET low  == props.data.one_year_price.low
           mid  == props.data.one_year_price.mid
           high == props.data.one_year_price.high
       IN [rendered |-> TRUE, isNull |-> FALSE,
           confidence |-> props.data.one_year_price.confidence,
           drivers |-> props.data.key_drivers,
           chartData |->
             << [name |-> "current", price |-> props.currentPrice,
                 range |-> <<props.currentPrice, props.currentPrice>>],
                [name |-> "forecast (1 year)", price |-> mid,
                 range |-> <<low, high>>] >>]

\* the render of PriceForecast with the props it is given
RenderForecast ==
  /\ ~forecast.rendered
  /\ forecast' = PriceForecast(forecastProps)
  /\ UNCHANGED forecastProps

\* The props: no payload, a payload without one_year_price, and payloads whose
\* low, mid and high are in any order
ForecastPrices == {90, 100, 120}
NoOneYearPrice == [absent |-> TRUE, low |-> 0, mid |-> 0, high |-> 0, confidence |-> ""]
OneYearPrices ==
  {[absent |-> FALSE, low |-> l, mid |-> m, high |-> h, confidence |-> c] :
     l \in ForecastPrices, m \in ForecastPrices, h \in ForecastPrices,
     c \in {"high"}}
ForecastPayloads ==
  {[absent |-> TRUE, one_year_price |-> NoOneYearPrice, key_drivers |-> <<>>]}
  \cup {[absent |-> FALSE, one_year_price |-> y, key_drivers |-> <<"orders">>] :
          y \in {NoOneYearPrice} \cup OneYearPrices}
ForecastInputs ==
  {[data |-> d, currentPrice |-> c] : d \in ForecastPayloads, c \in {95, 100, 125}}

----------------------------------------------------------------------------
(* The props of AnalysisInsights *)

Valuation(price, dcf, gordon, twoStage, pe, dividend) ==
  [price |-> price, dcf_margin_of_safety |-> dcf, ddm_gordon |-> gordon,
   ddm_two_stage |-> twoStage, pe_ttm |-> pe, dividend_yield |-> dividend]
NoValuation == Valuation(Absent, Absent, Absent, Absent, Absent, Absent)

Summary(roe, grossMargin, debtRatio, netMargin) ==
  [roe |-> roe, gross_margin |-> grossMargin, debt_ratio |-> debtRatio,
   net_margin |-> netMargin]
NoSummaryData == Summary(Absent, Absent, Absent, Absent)

Props(overall, valuation, netProfit, cfo, momentum, trend, summary) ==
  [data |-> [scores |-> [overall |-> overall],
             valuation |-> valuation,
             fundamentals |-> [net_profit_yi |-> netProfit],
             cash_flow |-> [latest_cfo_yi |-> cfo],
             growth_momentum |-> [summary |-> momentum],
             annual_trend |-> trend],
   summary |-> summary]

Point(revenue, netProfit) == [revenue_yi |-> revenue, net_profit_yi |-> netProfit]
Trend(r1, r2) == << Point(Number(r1), Number(30)), Point(Number(r2), Number(30)) >>

\* scores.overall around the boundaries of the rating and of the advice, with
\* and without an undervalued signal and a highlight
RatingInputs ==
  {Props(o, v, Absent, Absent, NoSummary, <<>>, sm) :
     o \in {Absent, Number(0), Present(5999, 100), Number(60), Present(6999, 100),
            Number(70), Present(7499, 100), Number(75), Present(7999, 100),
            Number(80), Number(100)},
     v \in {NoValuation, Valuation(Number(100), Number(25), Absent, Absent, Absent, Absent)},
     sm \in {NoSummaryData, Summary(Number(21), Absent, Absent, Absent)}}

\* price, DCF margin and the two DDM values: absent, zero, and either side of
\* +-20 and of 0.8 and 1.2 times the price
DdmValues == {Absent, Number(0), Number(83), Number(125), Number(126), Number(130)}
ValuationInputs ==
  {Props(Absent, Valuation(p, m, g, t, Absent, Absent), Absent, Absent,
         NoSummary, <<>>, NoSummaryData) :
     p \in {Absent, Number(0), Number(100)},
     m \in {Absent, Number(-21), Number(-20), Number(20), Number(25)},
     g \in DdmValues, t \in DdmValues}

\* operating cash flow and net profit: absent, zero, and ratios around 0.5,
\* 0.8 and 1.2, of either sign
CashInputs ==
  {Props(Absent, NoValuation, n, c, NoSummary, <<>>, NoSummaryData) :
     c \in {Absent} \cup {Number(x) : x \in {0, 5, 6, 8, 9, 12, 13, -12, -13}},
     n \in {Absent, Number(0), Number(10), Number(-10)}}

\* annual_trend of up to MaxTrend points whose last two points take every
\* combination of an absent, a zero and two other values
TrendValues == {Absent, Number(0), Number(300), Number(400)}
ProfitValues == {Absent, Number(0), Number(20), Number(30)}
Points == {Point(r, n) : r \in TrendValues, n \in ProfitValues}
OlderPoints == {Point(Number(250), Number(10)), Point(Number(0), Absent)}
Trends ==
  {<<>>} \cup {<<pt>> : pt \in Points}
  \cup UNION {{older \o <<prev, latest>> :
                 older \in [1..n -> OlderPoints], prev \in Points, latest \in Points} :
              n \in 0..(MaxTrend - 2)}
GrowthInputs ==
  {Props(Absent, NoValuation, Absent, Absent, NoSummary, t, NoSummaryData) :
     t \in Trends}

\* every tier of the eight highlight rules
HighlightInputs ==
  {Props(Absent, Valuation(Absent, Absent, Absent, Absent, pe, dy), Number(10), c, gm, t,
         Summary(roe, margin, debt, Absent)) :
     pe \in {Absent, Number(0), Number(14), Number(15)},
     dy \in {Absent, Number(3), Number(4)},
     c \in {Absent, Number(12), Number(13)},
     gm \in {NoSummary, "sustained growth", "accelerating growth", "declining"},
     t \in {<<>>, Trend(100, 110), Trend(3000, 3601), Trend(100, 121)},
     roe \in {Absent, Number(15), Number(20), Number(21)},
     margin \in {Absent, Number(50), Number(51)},
     debt \in {Absent, Number(29), Number(30), Number(50)}}

\* every tier of the eight risk rules
RiskTrends ==
  {<<>>, Trend(100, 90), Trend(100, 120),
   << Point(Number(100), Number(30)), Point(Number(100), Number(20)) >>,
   << Point(Number(100), Number(0)), Point(Number(100), Number(-5)) >>}
RiskInputs ==
  {Props(Absent, Valuation(Absent, dcf, Absent, Absent, pe, Absent), Number(10), c, gm, t,
         Summary(roe, Absent, debt, margin)) :
     pe \in {Absent, Number(30), Number(50), Number(51)},
     dcf \in {Absent, Number(-30), Number(-31)},
     c \in {Number(0), Number(5), Number(6)},
     gm \in {NoSummary, "declining", "recession"},
     t \in RiskTrends,
     roe \in {Absent, Number(0), Number(7), Number(8)},
     margin \in {Absent, Number(0), Number(4), Number(5)},
     debt \in {Absent, Number(60), Number(70), Number(71)}}

----------------------------------------------------------------------------
(* StockAnalyzer: startAnalysis, pollStatus *)

MAX_RETRIES == 3

\* res.data.status of a status response: the task is still running, or ended
TaskStatuses == {"processing", "completed", "error"}

\* One StockAnalyzer instance, mounted, before any input.  intervalRef is 0 for
\* null and the id of the interval otherwise; timeouts counts the
\* setTimeout(() => onComplete(...)) calls made.
NewAnalyzer ==
  [mounted |-> TRUE, posting |-> FALSE, taskId |-> 0, status |-> "null",
   error |-> "null", showErrorDetails |-> FALSE, intervalRef |-> 0,
   retryCountRef |-> 0, timeouts |-> 0]

\* No interval is running, no request is in flight, no task exists.  pending
\* counts the status requests not yet answered, answers[s] the responses with
\* status s on their way, issued all status requests made so far.
NoPolling ==
  [interval |-> FALSE, pending |-> 0, answers |-> [s \in TaskStatuses |-> 0],
   task |-> "none", issued |-> 0]

\* A state setter called after the component unmounted changes nothing.
SetState(a, field, value) == IF a.mounted THEN [a EXCEPT ![field] = value] ELSE a

\* clearInterval(intervalRef.current)
clearInterval(a, p) == IF a.intervalRef # 0 THEN [p EXCEPT !.interval = FALSE] ELSE p

\* startAnalysis() up to the await of the POST, for the text in the input box
StartAnalysis(code) ==
  /\ analyzer.mounted /\ ~analyzer.posting /\ analyzer.taskId = 0
  /\ analyzer' =
       IF code = ""
       THEN SetState(analyzer, "error", "enter a code")
       ELSE [SetState(SetState(analyzer, "error", "null"), "showErrorDetails", FALSE)
               EXCEPT !.retryCountRef = 0, !.posting = TRUE]
  /\ UNCHANGED <<polling, pollLog>>

\* pollStatus(id): clear the previous interval, poll() once, start the interval
pollStatus(a, p) ==
  [analyzer |-> [a EXCEPT !.intervalRef = 1],
   polling  |-> [clearInterval(a, p) EXCEPT !.interval = TRUE,
                                            !.pending = @ + 1, !.issued = @ + 1]]

\* startAnalysis() from the answer to the POST on: a task id starts the
\* polling, anything else is reported
AnalyzeResponse(ok) ==
  /\ analyzer.posting
  /\ IF ok
     THEN LET r == pollStatus(SetState([analyzer EXCEPT !.posting = FALSE], "taskId", 1),
                              [polling EXCEPT !.task = "processing"])
          IN analyzer' = r.analyzer /\ polling' = r.polling
     ELSE /\ analyzer' = SetState([analyzer EXCEPT !.posting = FALSE], "error", "start failed")
          /\ UNCHANGED polling
  /\ UNCHANGED pollLog

\* The interval fires: poll() issues the next status request, whatever became
\* of the earlier ones.
Tick ==
  /\ polling.interval
  /\ polling.issued < MaxPolls
  /\ polling' = [polling EXCEPT !.pending = @ + 1, !.issued = @ + 1]
  /\ UNCHANGED <<analyzer, pollLog>>

\* The server's task ends.
TaskEnds(s) ==
  /\ polling.task = "processing"
  /\ polling' = [polling EXCEPT !.task = s]
  /\ UNCHANGED <<analyzer, pollLog>>

\* The server answers a status request with the task's status of that moment.
Serve ==
  /\ polling.pending > 0
  /\ polling' = [polling EXCEPT !.pending = @ - 1, !.answers[polling.task] = @ + 1]
  /\ UNCHANGED <<analyzer, pollLog>>

\* poll() after the await, a response with status s having arrived
PollResponse(s) ==
  /\ polling.answers[s] > 0
  /\ LET a1 == [SetState(analyzer, "status", s) EXCEPT !.retryCountRef = 0]
         p1 == [polling EXCEPT !.answers[s] = @ - 1]
     IN IF s = "completed"
        THEN /\ analyzer' = [a1 EXCEPT !.intervalRef = 0, !.timeouts = @ + 1]
             /\ polling' = clearInterval(a1, p1)
        ELSE IF s = "error"
        THEN /\ analyzer' = SetState(SetState([a1 EXCEPT !.intervalRef = 0],
                                              "error", "task failed"),
                                     "showErrorDetails", TRUE)
             /\ polling' = clearInterval(a1, p1)
        ELSE analyzer' = a1 /\ polling' = p1
  /\ pollLog' = Append(pollLog, s)

\* poll() after the await, the request having failed (network error, timeout)
PollFailedLate ==
  /\ polling.pending > 0
  /\ LET a1 == [analyzer EXCEPT !.retryCountRef = @ + 1]
         p1 == [polling EXCEPT !.pending = @ - 1]
     IN IF a1.retryCountRef > MAX_RETRIES
        THEN /\ analyzer' = SetState([a1 EXCEPT !.intervalRef = 0], "error", "status failed")
             /\ polling' = clearInterval(a1, p1)
        ELSE analyzer' = a1 /\ polling' = p1
  /\ pollLog' = Append(pollLog, "failed")
PollFailed ==
  /\ polling.pending > 0
  /\ LET a1 == [analyzer EXCEPT !.retryCountRef = @ + 1]
         p1 == [polling EXCEPT !.pending = @ - 1]
     IN IF a1.retryCountRef >= MAX_RETRIES
        THEN /\ analyzer' = SetState([a1 EXCEPT !.intervalRef = 0], "error", "status failed")
             /\ polling' = clearInterval(a1, p1)
        ELSE analyzer' = a1 /\ polling' = p1
  /\ pollLog' = Append(pollLog, "failed")

\* StockAnalyzer unmounts: the cleanup clears the interval intervalRef holds.
UnmountAnalyzer ==
  /\ analyzer.mounted
  /\ analyzer' = [analyzer EXCEPT !.mounted = FALSE]
  /\ polling' = clearInterval(analyzer, polling)
  /\ UNCHANGED pollLog

----------------------------------------------------------------------------
(* App: fetchReports and its callers *)

\* App before its mount effect has run.  cached tells whether the module's
\* cache holds a fresh 'reports' entry (an earlier mount may have left one);
\* abortControllerRef is 0 for null and otherwise the number of the request
\* whose signal the controller owns; timers counts the pending
\* setTimeout(() => fetchReports(true), 1500) calls.
NewApp(cached) ==
  [mounted |-> TRUE, started |-> FALSE, loading |-> FALSE, error |-> "null",
   reports |-> "empty", cached |-> cached, abortControllerRef |-> 0, timers |-> 0]

\* abortControllerRef.current?.abort(): a request still pending is rejected
\* with a cancellation, which its fetchReports call handles later
abort(a, reqs) ==
  IF a.abortControllerRef # 0 /\ reqs[a.abortControllerRef] = "pending"
  THEN [reqs EXCEPT ![a.abortControllerRef] = "aborted"]
  ELSE reqs

\* fetchReports(forceRefresh) up to the await
fetchReports(a, reqs, forceRefresh) ==
  IF ~forceRefresh /\ a.cached
  THEN [app |-> SetState(a, "reports", "cached list"), requests |-> reqs]
  ELSE [app |-> [SetState(SetState(a, "loading", TRUE), "error", "null")
                   EXCEPT !.abortControllerRef = Len(reqs) + 1],
        requests |-> Append(abort(a, reqs), "pending")]

\* The mount effect: fetchReports()
MountEffect ==
  /\ app.mounted /\ ~app.started
  /\ LET r == fetchReports([app EXCEPT !.started = TRUE], requests, FALSE)
     IN app' = r.app /\ requests' = r.requests

\* The refresh button, disabled while loading: onClick={fetchReports} passes
\* the click event as forceRefresh
RefreshClick ==
  /\ app.mounted /\ app.started /\ ~app.loading
  /\ Len(requests) < MaxFetches
  /\ LET r == fetchReports(app, requests, TRUE)
     IN app' = r.app /\ requests' = r.requests

\* handleAnalysisComplete(code): cache.clear(); fetchReports(true); and the
\* same again from a timer
handleAnalysisComplete ==
  /\ app.mounted /\ app.started
  /\ Len(requests) < MaxFetches
  /\ LET r == fetchReports([app EXCEPT !.cached = FALSE, !.timers = @ + 1], requests, TRUE)
     IN app' = r.app /\ requests' = r.requests

\* ... the timer fires: fetchReports(true)
RefetchTimer ==
  /\ app.timers > 0
  /\ Len(requests) < MaxFetches
  /\ LET r == fetchReports([app EXCEPT !.timers = @ - 1], requests, TRUE)
     IN app' = r.app /\ requests' = r.requests

\* fetchReports after the await, request i answered: the list is stored and
\* cached, or the error is shown; finally loading is set to false
ReportsResponse(i, ok) ==
  /\ requests[i] = "pending"
  /\ requests' = [requests EXCEPT ![i] = "settled"]
  /\ app' = SetState(IF ok
                     THEN [SetState(app, "reports", "list") EXCEPT !.cached = TRUE]
                     ELSE SetState(app, "error", "cannot reach the server"),
                     "loading", FALSE)

\* fetchReports after the await, request i cancelled: catch returns on
\* axios.isCancel(err), and finally sets loading to false
ReportsCancelled(i) ==
  /\ requests[i] = "aborted"
  /\ requests' = [requests EXCEPT ![i] = "settled"]
  /\ app' = SetState(app, "loading", FALSE)

\* App unmounts: the effect's cleanup aborts the pending request.
UnmountApp ==
  /\ app.mounted /\ app.started
  /\ app' = [app EXCEPT !.mounted = FALSE]
  /\ requests' = abort(app, requests)

----------------------------------------------------------------------------
(* Initial states and specifications *)

BusInit ==
  /\ buses = <<NewBus>>
  /\ tokens = NoTokens
  /\ frame = Idle
  /\ called = <<>>
  /\ snapshot = NoSnapshot
  /\ added = {}
  /\ touched = FALSE
  /\ outcome = "none"
  /\ lost = "none"
  /\ cleared = "no"
  /\ lastOp = Op("other", FALSE, FALSE)

ViewIdle ==
  /\ views = [v \in {} |-> 0]
  /\ curBus = 1
  /\ nClosures = 0

MaIdle ==
  /\ data = <<>>
  /\ processed = NotReady

\* AnalysisInsights and PriceForecast are not rendered: there are no props
NoProps == [rendered |-> FALSE]

InsightIdle ==
  /\ insightProps = NoProps
  /\ insights = NotRendered

ForecastIdle ==
  /\ forecastProps = NoProps
  /\ forecast = [rendered |-> FALSE, isNull |-> TRUE]

\* No StockAnalyzer and no App is mounted.
PollIdle ==
  /\ analyzer = [mounted |-> FALSE]
  /\ polling = [interval |-> FALSE]
  /\ pollLog = <<>>

ReportIdle ==
  /\ app = [mounted |-> FALSE]
  /\ requests = <<>>

Init == BusInit /\ ViewIdle /\ MaIdle /\ InsightIdle /\ ForecastIdle /\ PollIdle /\ ReportIdle

Next ==
  \/ \E k \in ChartEventTypes, cb \in Callbacks :
        On(k, cb) /\ UNCHANGED <<viewVars, pureVars>>
  \/ \E k \in ChartEventTypes, cb \in Callbacks :
        Off(k, cb) /\ UNCHANGED <<viewVars, pureVars>>
  \/ \E k \in ChartEventTypes, cb \in Callbacks, st \in TokenStates :
        Unsubscribe(k, cb, st) /\ UNCHANGED <<viewVars, pureVars>>
  \/ Clear /\ UNCHANGED <<viewVars, pureVars>>
  \/ \E k \in ChartEventTypes :
        Emit(1, k, FreshPayload) /\ UNCHANGED <<viewVars, pureVars>>
  \/ ForEachStep /\ UNCHANGED <<viewVars, pureVars>>
  \/ CallbackReturn /\ UNCHANGED <<viewVars, pureVars>>
  \/ CallbackThrow /\ UNCHANGED <<viewVars, pureVars>>

Spec == Init /\ [][Next]_vars

LinkInit ==
  /\ BusInit
  /\ views = [v \in Views |-> Unmounted]
  /\ curBus = 1
  /\ nClosures = 0
  /\ MaIdle
  /\ InsightIdle
  /\ ForecastIdle
  /\ PollIdle
  /\ ReportIdle

LinkNext ==
  \/ \E v \in Views : Mount(v) /\ UNCHANGED pureVars
  \/ \E v \in Views : Unmount(v) /\ UNCHANGED pureVars
  \/ \E v \in Views : PropsChange(v) /\ UNCHANGED pureVars
  \/ ProviderRender /\ UNCHANGED pureVars
  \/ \E b \in 1..Len(buses), k \in ChartEventTypes :
        Publish(b, k) /\ UNCHANGED <<viewVars, pureVars>>
  \/ ForEachStep /\ UNCHANGED <<viewVars, pureVars>>
  \/ CallbackReturn /\ UNCHANGED <<viewVars, pureVars>>
  \/ CallbackThrow /\ UNCHANGED <<viewVars, pureVars>>

SpecLinkage == LinkInit /\ [][LinkNext]_vars

IndInit ==
  /\ BusInit
  /\ ViewIdle
  /\ data \in ShortInputs \cup LongInputs
  /\ processed = NotReady
  /\ InsightIdle
  /\ ForecastIdle
  /\ PollIdle
  /\ ReportIdle

IndNext ==
  Render /\ UNCHANGED <<busVars, viewVars, insightVars, forecastVars, pollVars, reportVars>>

SpecIndicator == IndInit /\ [][IndNext]_vars

InsightInit ==
  /\ BusInit
  /\ ViewIdle
  /\ MaIdle
  /\ \/ insightProps \in RatingInputs
     \/ insightProps \in ValuationInputs
     \/ insightProps \in CashInputs
     \/ insightProps \in GrowthInputs
     \/ insightProps \in HighlightInputs
     \/ insightProps \in RiskInputs
  /\ insights = NotRendered
  /\ ForecastIdle
  /\ PollIdle
  /\ ReportIdle

InsightNext ==
  RenderInsights /\ UNCHANGED <<busVars, viewVars, maVars, forecastVars, pollVars, reportVars>>

SpecInsight == InsightInit /\ [][InsightNext]_vars

ForecastInit ==
  /\ BusInit
  /\ ViewIdle
  /\ MaIdle
  /\ InsightIdle
  /\ forecastProps \in ForecastInputs
  /\ forecast = [rendered |-> FALSE, isNull |-> TRUE]
  /\ PollIdle
  /\ ReportIdle

ForecastNext ==
  RenderForecast /\ UNCHANGED <<busVars, viewVars, maVars, insightVars, pollVars, reportVars>>

SpecForecast == ForecastInit /\ [][ForecastNext]_vars

PollInit ==
  /\ BusInit
  /\ ViewIdle
  /\ MaIdle
  /\ InsightIdle
  /\ ForecastIdle
  /\ analyzer = NewAnalyzer
  /\ polling = NoPolling
  /\ pollLog = <<>>
  /\ ReportIdle

PollOthers == <<busVars, viewVars, maVars, insightVars, forecastVars, reportVars>>

PollNext ==
  \/ \E code \in {"", "600519"} : StartAnalysis(code) /\ UNCHANGED PollOthers
  \/ \E ok \in BOOLEAN : AnalyzeResponse(ok) /\ UNCHANGED PollOthers
  \/ Tick /\ UNCHANGED PollOthers
  \/ \E s \in {"completed", "error"} : TaskEnds(s) /\ UNCHANGED PollOthers
  \/ Serve /\ UNCHANGED PollOthers
  \/ \E s \in TaskStatuses : PollResponse(s) /\ UNCHANGED PollOthers
  \/ PollFailed /\ UNCHANGED PollOthers
  \/ UnmountAnalyzer /\ UNCHANGED PollOthers

SpecPolling == PollInit /\ [][PollNext]_vars

ReportInit ==
  /\ BusInit
  /\ ViewIdle
  /\ MaIdle
  /\ InsightIdle
  /\ ForecastIdle
  /\ PollIdle
  /\ \E cached \in BOOLEAN : app = NewApp(cached)
  /\ requests = <<>>

ReportOthers == <<busVars, viewVars, maVars, insightVars, forecastVars, pollVars>>

ReportNext ==
  \/ MountEffect /\ UNCHANGED ReportOthers
  \/ RefreshClick /\ UNCHANGED ReportOthers
  \/ handleAnalysisComplete /\ UNCHANGED ReportOthers
  \/ RefetchTimer /\ UNCHANGED ReportOthers
  \/ \E i \in 1..Len(requests), ok \in BOOLEAN :
        ReportsResponse(i, ok) /\ UNCHANGED ReportOthers
  \/ \E i \in 1..Len(requests) : ReportsCancelled(i) /\ UNCHANGED ReportOthers
  \/ UnmountApp /\ UNCHANGED ReportOthers

SpecReports == ReportInit /\ [][ReportNext]_vars

----------------------------------------------------------------------------
(* Properties of ChartEventBus *)

\* An emit() call has ended and its history is still in place.
EmitDone == frame.pc = "idle" /\ outcome \in {"returned", "raised"}

CalledSeq == [i \in 1..Len(called) |-> called[i].cb]

Times(cb) == Cardinality({i \in 1..Len(called) : called[i].cb = cb})

Registered(k, cb) == cb \in Range(buses[1][k].set)

\* C1: a callback that throws during emit is caught: emit never raises to the
\* publisher, and when an emit whose dispatch left the emitted kind's
\* registrations alone has ended, every other handler that was registered for
\* the kind has been invoked, however many callbacks threw.
C1_ThrowIsolated ==
  /\ outcome # "raised"
  /\ (EmitDone /\ ~touched) =>
       \A i \in 1..Len(called) :
         called[i].threw =>
           \A cb \in Range(snapshot.set) \ {called[i].cb} : Times(cb) >= 1

C1_Witness ==
  /\ EmitDone /\ ~touched
  /\ Len(snapshot.set) = 2
  /\ Len(called) = 2
  /\ called[1].threw
  /\ called[2].cb # called[1].cb

\* C2: a handler subscribed to kind K by a callback running during emit(K) is
\* not invoked by that emit.
C2_LateSubscriberNotInvoked ==
  frame.pc = "run" => frame.cb \notin added

\* C3: every handler registered for K when emit(K) started has been invoked
\* when the emit returns, also when an earlier callback unsubscribed it.
C3_UnsubscribedStillInvoked ==
  (EmitDone /\ outcome = "returned") =>
    \A cb \in Range(snapshot.set) : Times(cb) >= 1

\* C4: every on() call creates a registration of its own: an emit invokes a
\* handler once per live registration, and a registration stays active until
\* its own unsubscribe function is called (or off / clear removes it).
C4_NoDeduplication ==
  /\ (EmitDone /\ ~touched) =>
       \A cb \in Callbacks : Times(cb) = tokens[Key(snapshot.kind, cb)]["live"]
  /\ \A key \in TokenKeys :
       tokens[key]["live"] > 0 => Registered(key.kind, key.cb)

\* C5: calling an unsubscribe function removes the registration its on() call
\* created and no other one, and calling it again removes nothing.
C5_UnsubscribeExact ==
  lastOp.op = "unsub" =>
    /\ lastOp.again => ~lastOp.changed
    /\ \A key \in TokenKeys :
         tokens[key]["live"] > 0 => Registered(key.kind, key.cb)

\* C6: an emit whose dispatch leaves the emitted kind's registrations alone
\* invokes exactly the handlers registered for that kind, each once, with the
\* emitted payload, in the order of the kind's handler set; and that order is
\* the order of registration: a newly registered handler goes behind all the
\* handlers already registered.
C6_Dispatch ==
  (EmitDone /\ ~touched) =>
    /\ CalledSeq = snapshot.set
    /\ \A i \in 1..Len(called) : called[i].arg = snapshot.payload

C6_Append ==
  \A k \in ChartEventTypes :
    Len(buses'[1][k].set) > Len(buses[1][k].set) =>
      SubSeq(buses'[1][k].set, 1, Len(buses[1][k].set)) = buses[1][k].set

C6_RegistrationOrder == [](C6_Dispatch) /\ [][C6_Append]_vars

C6_Witness ==
  /\ EmitDone /\ ~touched
  /\ Len(snapshot.set) = 2
  /\ Len(called) = 2
  /\ snapshot.set = <<Fn("h2", 0), Fn("h1", 0)>>
  /\ called[1].cb = Fn("h2", 0)

\* C7: an emit for a kind with no registered handler invokes nothing and
\* returns normally, and its payload is never delivered afterwards.
C7_NoBuffering ==
  /\ (snapshot.set = <<>> /\ outcome # "none") =>
       called = <<>> /\ outcome # "raised" /\ frame.pc # "run"
  /\ \A i \in 1..Len(called) : called[i].arg # lost

C7_Witness ==
  /\ lost # "none"
  /\ frame.pc = "run"
  /\ frame.kind = "date:click"
  /\ ~buses[1]["data:highlight"].has

----------------------------------------------------------------------------
(* Properties of withChartLinkage *)

\* Some mounted view holds the unsubscribe closure of this registration.
Owned(b, k, cb) ==
  \E v \in Views :
    views[v].mounted /\ Token(b, k, cb) \in Range(views[v].unsubs)

\* C9: the subscriptions of a LinkedChart end with its effect: every handler
\* registered on any bus was subscribed by the current effect of a view that
\* is mounted, and an emit invokes only such handlers.
C9_NoOrphan ==
  \A b \in 1..Len(buses), k \in ChartEventTypes :
    \A cb \in Range(buses[b][k].set) : Owned(b, k, cb)

C9_InvokeOwned ==
  (frame.pc = "iter" /\ frame'.pc = "run") =>
     Owned(frame'.bus, frame'.kind, frame'.cb)

C9_ScopedSubscriptions == [](C9_NoOrphan) /\ [][C9_InvokeOwned]_vars

\* a view has unmounted, another one is mounted, and a handler is running
C9_Witness ==
  /\ frame.pc = "run"
  /\ \E v \in Views : ~views[v].mounted
  /\ \E v \in Views : views[v].mounted
  /\ nClosures >= 2
  /\ frame.cb.fn = "highlight"

----------------------------------------------------------------------------
(* Properties of the indicator series *)

\* The sum of close[lo..hi], by halving
RECURSIVE SumOf(_, _, _)
SumOf(close, lo, hi) ==
  IF lo > hi THEN 0
  ELSE IF lo = hi THEN close[lo]
  ELSE LET mid == (lo + hi) \div 2
       IN SumOf(close, lo, mid) + SumOf(close, mid + 1, hi)

MASeries(N) ==
  CASE N = 5   -> processed.ma5
    [] N = 20  -> processed.ma20
    [] N = 60  -> processed.ma60
    [] N = 120 -> processed.ma120

\* C10: for a non-empty bar sequence of length L (an empty one is given no
\* series at all) and every window N of 5, 20, 60, 120, the moving-average
\* series has length L, is null at the (0-based) indices below N - 1, and from
\* index N - 1 on is the mean of the N closes ending there; a sequence shorter
\* than N gives an all-null series.
C10_MovingAverage ==
  processed.ready =>
    /\ processed.isNull <=> Len(data) = 0
    /\ ~processed.isNull =>
         \A N \in {5, 20, 60, 120} :
           /\ Len(MASeries(N)) = Len(data)
           /\ \A i \in 1..Len(data) :
                /\ MASeries(N)[i].null <=> (i - 1 < N - 1)
                /\ ~MASeries(N)[i].null =>
                     /\ MASeries(N)[i].den > 0
                     /\ MASeries(N)[i].num * N =
                          MASeries(N)[i].den * SumOf(data, i - N + 1, i)
           /\ Len(data) < N => \A i \in 1..Len(data) : MASeries(N)[i] = Null

C10_Witness ==
  /\ processed.ready /\ ~processed.isNull
  /\ Len(data) >= 121
  /\ data[1] # data[2]
  /\ processed.ma120[119].null
  /\ ~processed.ma120[121].null
  /\ ~processed.ma5[5].null
  /\ processed.ma5[4].null

\* The sum of the squares of close[lo..hi]
SumSqOf(close, lo, hi) ==
  SumOf([j \in 1..Len(close) |-> close[j] * close[j]], lo, hi)

\* C11: the upper and the lower band are null exactly at the indices where ma20
\* is null (everywhere when L < 20); from (0-based) index 19 on the upper band
\* is ma20 + 2 * std and the lower band ma20 - 2 * std, std being the population
\* standard deviation of close[i-19..i]: the root of
\* (20 * sum of squares - square of the sum) / 400, a root of a non-negative
\* number, so lower <= ma20 <= upper.
C11_VolatilityBand ==
  (processed.ready /\ ~processed.isNull) =>
    /\ Len(processed.bollUp) = Len(data)
    /\ Len(processed.bollDn) = Len(data)
    /\ \A i \in 1..Len(data) :
         LET up == processed.bollUp[i]
             dn == processed.bollDn[i]
             S  == SumOf(data, i - 19, i)
             Q  == SumSqOf(data, i - 19, i)
         IN /\ up.null <=> processed.ma20[i].null
            /\ dn.null <=> processed.ma20[i].null
            /\ Len(data) < 20 => up.null /\ dn.null
            /\ i - 1 >= 19 =>
                 /\ ~up.null /\ ~dn.null
                 /\ up.base = processed.ma20[i] /\ dn.base = processed.ma20[i]
                 /\ up.base.num * 20 = up.base.den * S
                 /\ up.coef = 2 /\ dn.coef = -2
                 /\ up.rad = dn.rad
                 /\ up.rad.den > 0 /\ up.rad.num >= 0
                 /\ up.rad.num * 400 = up.rad.den * (20 * Q - S * S)

C11_Witness ==
  /\ processed.ready /\ ~processed.isNull
  /\ Len(data) >= 21
  /\ processed.bollUp[19].null /\ processed.bollDn[19].null
  /\ ~processed.bollUp[21].null
  /\ processed.bollUp[21].rad.num > 0
  /\ processed.bollDn[21].coef = -2

\* C12: the colour of bar 0 is the up colour, and the colour of every later
\* bar i is the up colour if close[i] >= close[i-1], equal closes included,
\* and the down colour otherwise.
C12_BarColor ==
  (processed.ready /\ ~processed.isNull) =>
    /\ Len(processed.volColors) = Len(data)
    /\ processed.volColors[1] = processed.upColor
    /\ processed.upColor # processed.downColor
    /\ \A i \in 2..Len(data) :
         /\ processed.volColors[i] \in {processed.upColor, processed.downColor}
         /\ processed.volColors[i] = processed.upColor <=> data[i] >= data[i - 1]

C12_Witness ==
  /\ processed.ready /\ ~processed.isNull
  /\ Len(data) = 4
  /\ data[2] = data[1] /\ processed.volColors[2] = processed.upColor
  /\ data[3] < data[2] /\ processed.volColors[3] = processed.downColor
  /\ data[4] > data[3] /\ processed.volColors[4] = processed.upColor

----------------------------------------------------------------------------
(* Properties of AnalysisInsights *)

\* C13: the rating depends on scores.overall alone, an absent score counting
\* as 0: the top tier from 80 up, the second tier from 70 up to but not
\* including 80, the neutral tier from 60 up to but not including 70, the
\* bottom tier below 60 or without a score; a tier always has the same action
\* phrase and colour.
C13_Rating ==
  insights.rendered =>
    LET o == insightProps.data.scores.overall
        r == insights.rating
    IN /\ r.label = "strongly recommended" <=> (~o.absent /\ o.num >= 80 * o.den)
       /\ r.label = "recommended" <=>
            (~o.absent /\ o.num >= 70 * o.den /\ o.num < 80 * o.den)
       /\ r.label = "neutral" <=>
            (~o.absent /\ o.num >= 60 * o.den /\ o.num < 70 * o.den)
       /\ r.label = "wait" <=> (o.absent \/ o.num < 60 * o.den)
       /\ <<r.label, r.action, r.color>> \in
            { <<"strongly recommended", "build a position on dips", "var(--color-success)">>,
              <<"recommended", "enter at a good moment", "var(--color-up)">>,
              <<"neutral", "wait and watch", "var(--color-warning)">>,
              <<"wait", "avoid for now", "var(--color-down)">> }

C13_Witness ==
  /\ insights.rendered
  /\ insightProps.data.scores.overall = Number(80)
  /\ insights.rating.label = "strongly recommended"

\* The tally the valuation rule describes, each field counted when it is present
C14_Under(valuation) ==
  LET price == valuation.price
      Ddm(ddm) == IF ~ddm.absent /\ LtF(price, Scaled(ddm, 8, 10)) THEN 1 ELSE 0
  IN (IF Gt(valuation.dcf_margin_of_safety, 20) THEN 1 ELSE 0)
     + Ddm(valuation.ddm_gordon) + Ddm(valuation.ddm_two_stage)

C14_Over(valuation) ==
  LET price == valuation.price
      Ddm(ddm) == IF ~ddm.absent /\ GtF(price, Scaled(ddm, 12, 10)) THEN 1 ELSE 0
  IN (IF Lt(valuation.dcf_margin_of_safety, -20) THEN 1 ELSE 0)
     + Ddm(valuation.ddm_gordon) + Ddm(valuation.ddm_two_stage)

\* C14: without valuation.price the status is "cannot judge"; with a price the
\* three signals are tallied, a DDM signal being counted when that DDM value is
\* present, and the label is clearly undervalued for two or more undervalued
\* signals, else relatively undervalued for one, else clearly overvalued for
\* two or more overvalued signals, else relatively overvalued for one, else
\* fairly valued.
C14_ValuationStatus ==
  insights.rendered =>
    LET v  == insightProps.data.valuation
        st == insights.valuationStatus.status
    IN IF v.price.absent THEN st = "cannot judge"
       ELSE st = (IF C14_Under(v) >= 2 THEN "clearly undervalued"
                  ELSE IF C14_Under(v) >= 1 THEN "relatively undervalued"
                  ELSE IF C14_Over(v) >= 2 THEN "clearly overvalued"
                  ELSE IF C14_Over(v) >= 1 THEN "relatively overvalued"
                  ELSE "fairly valued")

C15_Snapshot ==
  /\ insights.rendered
  /\ insightProps.data.valuation =
       Valuation(Number(100), Number(25), Number(130), Absent, Absent, Absent)

\* C15 as stated: with price 100, ddm_gordon 130, DCF margin 25 and no
\* ddm_two_stage exactly one undervalued signal is tallied and the label is
\* relatively undervalued.
C15_OneSignal ==
  C15_Snapshot =>
    /\ insights.valuationStatus.undervaluedCount = 1
    /\ insights.valuationStatus.status = "relatively undervalued"

\* C15, amended: with price 100, ddm_gordon 130, DCF margin 25 and no
\* ddm_two_stage two undervalued signals are tallied (25 > 20, and 100 < 104,
\* which is 0.8 * 130) and no overvalued one, and the label is clearly
\* undervalued.
C15_TwoSignals ==
  C15_Snapshot =>
    /\ insights.valuationStatus.undervaluedCount = 2
    /\ insights.valuationStatus.overvaluedCount = 0
    /\ insights.valuationStatus.status = "clearly undervalued"

C15_Witness ==
  /\ C15_Snapshot
  /\ insights.valuationStatus.tallied
  /\ insightProps.data.valuation.ddm_two_stage.absent

\* C16: cash-flow health is "insufficient data" exactly when latest_cfo_yi or
\* net_profit_yi is absent; with both present, a zero included, the label
\* follows cfo / net_profit: above 1.2 excellent, above 0.8 good, above 0.5
\* fair, otherwise poor (for a zero net profit only that a label is given).
C16_CashFlowHealth ==
  insights.rendered =>
    LET cfo == insightProps.data.cash_flow.latest_cfo_yi
        np  == insightProps.data.fundamentals.net_profit_yi
        st  == insights.cashFlowHealth.status
        \* cfo / np > n / 10
        Above(n) == IF np.num > 0
                    THEN 10 * cfo.num * np.den > n * np.num * cfo.den
                    ELSE 10 * cfo.num * np.den < n * np.num * cfo.den
    IN /\ st = "insufficient data" <=> (cfo.absent \/ np.absent)
       /\ (~cfo.absent /\ ~np.absent /\ np.num # 0) =>
            st = (IF Above(12) THEN "excellent"
                  ELSE IF Above(8) THEN "good"
                  ELSE IF Above(5) THEN "fair"
                  ELSE "poor")

\* No growth record is due: fewer than two points, or the revenue of the last
\* point but one is absent or zero
C17_NoRecord(trend) ==
  \/ Len(trend) < 2
  \/ trend[Len(trend) - 1].revenue_yi.absent
  \/ trend[Len(trend) - 1].revenue_yi.num = 0

\* 1000 * (latest - prev) and the denominator it is to be divided by to give
\* the growth in tenths of a percent
C17_Diff(latest, prev) == 1000 * (latest.num * prev.den - prev.num * latest.den)
C17_Den(latest, prev) == latest.den * prev.num

\* str is exactly (latest - prev) / prev * 100
C17_Exact(str, latest, prev) ==
  /\ ~latest.absent /\ ~prev.absent /\ prev.num # 0
  /\ str.kind = "num"
  /\ str.tenths * C17_Den(latest, prev) = C17_Diff(latest, prev)

\* C17: no growth record with fewer than two points or without a non-zero
\* previous revenue; otherwise a record whose revenue growth is
\* (latest.revenue - prev.revenue) / prev.revenue * 100 and whose profit growth
\* is the same ratio of the net profits, of the last two points.
C17_ExactGrowth ==
  insights.rendered =>
    LET trend == insightProps.data.annual_trend
        latest == trend[Len(trend)]
        prev == trend[Len(trend) - 1]
        g == insights.growth
    IN /\ g.isNull <=> C17_NoRecord(trend)
       /\ ~C17_NoRecord(trend) =>
            /\ C17_Exact(g.revenueGrowth, latest.revenue_yi, prev.revenue_yi)
            /\ C17_Exact(g.profitGrowth, latest.net_profit_yi, prev.net_profit_yi)

\* The order in which generateHighlights evaluates its rules
HighlightRules ==
  << "roe", "gross_margin", "debt_ratio", "revenue_growth", "growth_momentum",
     "dividend_yield", "cash_flow", "pe_ttm" >>

\* The order in which generateRisks evaluates its rules
RiskRules ==
  << "pe_ttm", "dcf_margin_of_safety", "roe", "debt_ratio", "net_margin", "growth",
     "cash_flow", "growth_momentum" >>

\* C18: the highlights are at most 5 items of those the rules produced, as many
\* as there are up to 5, in non-decreasing priority, items of one priority in
\* the order the rules are evaluated; an item is dropped only behind the kept
\* ones: no priority-2 item is kept while a priority-1 item is dropped, and a
\* dropped item of a kept item's priority comes from a later rule.
C18_Highlights ==
  insights.rendered =>
    LET h == insights.highlights
        pushed == insights.pushedHighlights
        dropped == Range(pushed) \ Range(h)
    IN /\ Len(h) <= 5
       /\ Len(h) = (IF Len(pushed) > 5 THEN 5 ELSE Len(pushed))
       /\ Range(h) \subseteq Range(pushed)
       /\ \A i \in 1..Len(h), j \in 1..Len(h) :
            i < j =>
              /\ h[i].priority <= h[j].priority
              /\ h[i].priority = h[j].priority =>
                   IndexOf(HighlightRules, h[i].rule) < IndexOf(HighlightRules, h[j].rule)
       /\ \A d \in dropped, k \in Range(h) :
            /\ ~(d.priority = 1 /\ k.priority = 2)
            /\ d.priority = k.priority =>
                 IndexOf(HighlightRules, k.rule) < IndexOf(HighlightRules, d.rule)

C18_Witness ==
  /\ insights.rendered
  /\ Len(insights.pushedHighlights) = 8
  /\ insights.pushedHighlights[1].priority = 2
  /\ insights.highlights[1].rule = "revenue_growth"
  /\ insights.highlights[3].priority = 1
  /\ insights.highlights[4].priority = 2
  /\ insights.highlights[4].rule = "roe"

\* C19: the risks are at most 5 items: the first 5 (or all, if fewer) of the
\* items the rules produced, in the order the rules are evaluated, whatever
\* their levels.
C19_Risks ==
  insights.rendered =>
    LET r == insights.risks
        pushed == insights.pushedRisks
    IN /\ Len(r) <= 5
       /\ Len(r) = (IF Len(pushed) > 5 THEN 5 ELSE Len(pushed))
       /\ \A i \in 1..Len(r) : r[i] = pushed[i]
       /\ \A i \in 1..Len(pushed), j \in 1..Len(pushed) :
            i < j => IndexOf(RiskRules, pushed[i].rule) < IndexOf(RiskRules, pushed[j].rule)
       /\ \A i \in 1..Len(pushed) : pushed[i].rule \in Range(RiskRules)

C19_Witness ==
  /\ insights.rendered
  /\ Len(insights.pushedRisks) = 8
  /\ Len(insights.risks) = 5
  /\ insights.risks[1].level = "medium"
  /\ insights.risks[2].level = "high"
  /\ insights.risks[5].rule = "net_margin"

----------------------------------------------------------------------------
(* Properties of PriceForecast *)

\* C20: with a payload that has one_year_price {low, mid, high} and a current
\* price p the series is two points, the current one with price p and range
\* [p, p], then the forecast one with price mid and range [low, high], the three
\* values taken as they are; without a payload or without its one_year_price
\* there is no series.
C20_ForecastSeries ==
  forecast.rendered =>
    LET d == forecastProps.data
        p == forecastProps.currentPrice
    IN /\ forecast.isNull <=> (d.absent \/ d.one_year_price.absent)
       /\ ~forecast.isNull =>
            /\ Len(forecast.chartData) = 2
            /\ forecast.chartData[1].name = "current"
            /\ forecast.chartData[1].price = p
            /\ forecast.chartData[1].range = <<p, p>>
            /\ forecast.chartData[2].name = "forecast (1 year)"
            /\ forecast.chartData[2].price = d.one_year_price.mid
            /\ forecast.chartData[2].range =
                 <<d.one_year_price.low, d.one_year_price.high>>

C20_Witness ==
  /\ forecast.rendered /\ ~forecast.isNull
  /\ forecastProps.currentPrice = 95
  /\ forecast.chartData[2].price = 90
  /\ forecast.chartData[2].range = <<120, 100>>

----------------------------------------------------------------------------
(* Properties of the provider, of dispatch and of shared handlers *)

\* C21: a ChartEventProvider owns one bus for its whole mounted lifetime: the
\* bus its first render created is the only one, and it is the one the context
\* hands to useChartEvents after any number of renders.
C21_OneBus == Len(buses) = 1 /\ curBus = 1

\* C23: within one emit, each handler function is invoked at most once,
\* whatever subscriptions and unsubscriptions the handlers perform during the
\* dispatch.
C23_AtMostOnce == \A cb \in Callbacks : Times(cb) <= 1

\* C24: a mounted view keeps the subscriptions its effect made: every handler
\* its unsubscribers stand for is registered on the bus it subscribed to, also
\* after another view sharing the configured handler has unmounted.
C24_SharedHandlerKept ==
  \A v \in Views :
    views[v].mounted =>
      \A i \in 1..Len(views[v].unsubs) :
        LET t == views[v].unsubs[i]
        IN t.cb \in Range(buses[t.bus][t.kind].set)

----------------------------------------------------------------------------
(* Properties of AnalysisInsights: truncation, advice, cash flow, growth *)

\* C27 as stated: the truncation of the risks to 5 items never drops a risk of
\* level high while keeping a risk of level medium.
C27_HighBeforeMedium ==
  insights.rendered =>
    \A d \in Range(insights.pushedRisks) \ Range(insights.risks),
       k \in Range(insights.risks) :
      ~(d.level = "high" /\ k.level = "medium")

\* C27, amended: the truncation of the risks to 5 items drops the risks of the
\* rules evaluated last, whatever their level: every dropped risk comes from a
\* rule evaluated after the rule of every kept risk.
C27_LaterRulesDropped ==
  insights.rendered =>
    \A d \in Range(insights.pushedRisks) \ Range(insights.risks),
       k \in Range(insights.risks) :
      IndexOf(RiskRules, k.rule) < IndexOf(RiskRules, d.rule)

\* more than 5 rules fired: a medium risk is kept and a high one is dropped
C27_Witness ==
  /\ insights.rendered
  /\ Len(insights.pushedRisks) > 5
  /\ \E k \in Range(insights.risks) : k.level = "medium"
  /\ \E d \in Range(insights.pushedRisks) \ Range(insights.risks) :
       d.level = "high" /\ d.rule = "cash_flow"

\* C28: the operation advice agrees with the rating tier: the high-score
\* variant exactly for the top and the second tier, the medium variant exactly
\* for the neutral tier, the low variant exactly for the bottom tier.
C28_AdviceMatchesRating ==
  insights.rendered =>
    LET label == insights.rating.label
        variant == insights.advice.variant
    IN /\ variant = "high" <=> label \in {"strongly recommended", "recommended"}
       /\ variant = "medium" <=> label = "neutral"
       /\ variant = "low" <=> label = "wait"

\* C29: with a negative latest operating cash flow the cash-flow health is
\* neither excellent nor good, and the highlights' cash-flow rule does not
\* fire.
C29_NegativeCashFlow ==
  insights.rendered =>
    LET cfo == insightProps.data.cash_flow.latest_cfo_yi
    IN (~cfo.absent /\ cfo.num < 0) =>
         /\ insights.cashFlowHealth.status \notin {"excellent", "good"}
         /\ \A i \in 1..Len(insights.pushedHighlights) :
              insights.pushedHighlights[i].rule # "cash_flow"

\* C30: a growth record holds two finite numbers: neither its revenue growth
\* nor its profit growth is NaN or an infinity.
C30_FiniteGrowth ==
  (insights.rendered /\ ~insights.growth.isNull) =>
    /\ insights.growth.revenueGrowth.kind = "num"
    /\ insights.growth.profitGrowth.kind = "num"

----------------------------------------------------------------------------
(* Properties of StockAnalyzer's polling *)

\* The number of failures at the end of the log, since the last response
TrailingFails(log) ==
  LET ok == {i \in 1..Len(log) : log[i] # "failed"}
      last == IF ok = {} THEN 0 ELSE CHOOSE i \in ok : \A j \in ok : j <= i
  IN Len(log) - last

\* C22: the failure count is the number of status requests that failed since
\* the last successful response (a success resets it to 0); once it reaches 3
\* the interval is stopped and, the component being mounted, an error is
\* shown; and the interval is stopped by a failure only then: it stops when
\* the component unmounts, when a response reports the task completed or
\* failed, or when 3 requests in a row have failed.
C22_Counted ==
  /\ analyzer.retryCountRef = TrailingFails(pollLog)
  /\ TrailingFails(pollLog) >= 3 =>
       /\ ~polling.interval
       /\ analyzer.mounted => analyzer.error # "null"

C22_StopCause ==
  (polling.interval /\ ~polling'.interval) =>
     \/ analyzer.mounted /\ ~analyzer'.mounted
     \/ /\ Len(pollLog') = Len(pollLog) + 1
        /\ pollLog'[Len(pollLog')] \in {"completed", "error"}
     \/ TrailingFails(pollLog') >= 3

C22_RetryLimit == [](C22_Counted) /\ [][C22_StopCause]_vars

\* a failure, a success, then three failures in a row have stopped the polling
C22_Witness ==
  /\ Len(pollLog) = 5
  /\ pollLog[1] = "failed" /\ pollLog[2] = "processing"
  /\ TrailingFails(pollLog) = 3
  /\ ~polling.interval
  /\ analyzer.mounted /\ analyzer.error = "status failed"

\* C25: for one task, onComplete is scheduled at most once.
C25_CompleteOnce == analyzer.timeouts <= 1

----------------------------------------------------------------------------
(* Properties of App's report list *)

\* C26: while App is mounted and a report-list request that has not been
\* aborted is in flight, loading is true.
C26_LoadingWhilePending ==
  (app.mounted /\ \E i \in 1..Len(requests) : requests[i] = "pending") => app.loading


====
